---- MODULE Spec2Model ----
(***************************************************************************)
(* Account store of the launcher (src-tauri/src/services/accounts.rs):     *)
(* the accounts.json file and the AccountManager operations that load it,  *)
(* change it and write it back.                                            *)
(*                                                                         *)
(*   SeqSpec    the operations called one after another, from no file      *)
(*   Spec       the mutating operations called concurrently, interleaved   *)
(*              at their load, clock, truncate and write steps             *)
(*   QuerySpec  the read-only queries on any file load() accepts           *)
(*   TokenSpec  get_valid_token and the Refresh Coordinator, which the     *)
(*              commands of commands/skins.rs call; their code is not      *)
(*              part of the sources at hand, so they follow spec.md        *)
(*              sections 4.3 to 4.5                                        *)
(***************************************************************************)
EXTENDS Integers, Sequences, FiniteSets, TLC

\* ------------------------------------------------------------------ bounds

\* Clock instants are 0..MaxTime; instant t is second t \div 4 of the
\* modelled minute plus the sub-second part SubSecNanos[t % 4 + 1].
MaxTime == 2

\* ------------------------------------------------------------------ inputs

Uuids == {"u1", "u2", "u3"}

\* (username, access_token) pairs a sign-in hands to add_account.
Credentials == {<<"Alice", "tokA">>, <<"Bob", "tokB">>}

\* ------------------------------------------------------- Option<T> values

None == <<>>
Some(x) == <<x>>
IsSome(o) == o # <<>>
Unwrap(o) == o[1]

\* ------------------------------------------- Utc::now().to_rfc3339()

\* Nanoseconds within the second of the four instants of each second: they
\* make chrono's SecondsFormat::AutoSi print 0, 3, 6 and 9 fraction digits.
SubSecNanos == <<0, 500000000, 500001000, 500001001>>

\* ASCII codes of the characters a timestamp is made of.
Ch == [plus |-> 43, dot |-> 46, zero |-> 48, colon |-> 58]

RECURSIVE Digits(_, _)
\* n printed in decimal, zero-padded to `width` characters.
Digits(n, width) ==
    IF width = 0 THEN <<>>
    ELSE Append(Digits(n \div 10, width - 1), Ch.zero + (n % 10))

\* The fraction of SecondsFormat::AutoSi: nothing, .mmm, .uuuuuu or .nnnnnnnnn
Fraction(nanos) ==
    IF nanos = 0 THEN <<>>
    ELSE IF nanos % 1000000 = 0 THEN <<Ch.dot>> \o Digits(nanos \div 1000000, 3)
    ELSE IF nanos % 1000 = 0 THEN <<Ch.dot>> \o Digits(nanos \div 1000, 6)
    ELSE <<Ch.dot>> \o Digits(nanos, 9)

\* to_rfc3339() of instant t, from the seconds field on (the date, hour and
\* minute before it are the same fixed-width text at every instant modelled):
\* "SS[.fraction]+00:00".
ToRfc3339(t) ==
    Digits(t \div 4, 2) \o Fraction(SubSecNanos[(t % 4) + 1])
        \o <<Ch.plus, Ch.zero, Ch.zero, Ch.colon, Ch.zero, Ch.zero>>

\* The timestamps of the instants modelled, formatted once.
Timestamps == [t \in 0..MaxTime |-> ToRfc3339(t)]

\* Utc::now().to_rfc3339() when the clock reads t.
Rfc3339(t) == Timestamps[t]

RECURSIVE StrCmp(_, _)
\* String::cmp: lexicographic on the bytes; -1 Less, 0 Equal, 1 Greater.
StrCmp(a, b) ==
    IF a = <<>> /\ b = <<>> THEN 0
    ELSE IF a = <<>> THEN -1
    ELSE IF b = <<>> THEN 1
    ELSE IF Head(a) < Head(b) THEN -1
    ELSE IF Head(a) > Head(b) THEN 1
    ELSE StrCmp(Tail(a), Tail(b))

\* ------------------------------------------------------------- data model

\* StoredAccount { uuid, username, access_token, added_at, last_used }
StoredAccount(uuid, username, token, added, used) ==
    [uuid |-> uuid, username |-> username, access_token |-> token,
     added_at |-> added, last_used |-> used]

\* AccountsData::default(): no accounts, no active account.
EmptyMap == [x \in {} |-> None]
DefaultData == [accounts |-> EmptyMap, active_account_uuid |-> None]

\* accounts.json: absent; holding the JSON text of an AccountsData; empty
\* (created or truncated, nothing written yet); or holding text that is no
\* JSON document.
MissingFile == [kind |-> "missing", data |-> DefaultData]
JsonFile(d) == [kind |-> "json", data |-> d]
EmptyFile == [kind |-> "empty", data |-> DefaultData]
CorruptFile == [kind |-> "corrupt", data |-> DefaultData]

\* HashMap::insert / HashMap::remove on the accounts map.
MapInsert(m, k, v) == [x \in (DOMAIN m) \cup {k} |-> IF x = k THEN v ELSE m[x]]
MapRemove(m, k) == [x \in (DOMAIN m) \ {k} |-> m[x]]

VARIABLES
    file,       \* the content of accounts.json
    now,        \* the clock: the latest instant any Utc::now() has returned
    lastCall,   \* the facade call the last step ran to completion
    ret,        \* what that call returned (read-only queries)
    procs,      \* the commands running concurrently, each at its own place
    file0,      \* the content of accounts.json when those commands started
    rc,         \* the token lifecycle: credentials, Refresh Tickets, callers
    skin,       \* the skin and cape commands running, and the requests sent
    recentSkins, \* the content of recent_skins/<account_uuid>.json
    servers,    \* the content of servers.json
    discord     \* the DiscordRpc: its client slot, its callers, its threads

vars == <<file, now, lastCall, ret, procs, file0, rc, skin, recentSkins, servers, discord>>
seqVars == <<lastCall, ret>>
concVars == <<procs, file0>>
cmdVars == <<skin, recentSkins, servers, discord>>

\* ------------------------------------------------------- AccountManager

\* load gone wrong: text that does not parse is taken for no accounts (the
\* unwrap_or_default of save_recent_skin).
LoadOrDefault(f) ==
    IF f.kind = "json" THEN [ok |-> TRUE, data |-> f.data]
    ELSE [ok |-> TRUE, data |-> DefaultData]

\* AccountManager::load: Ok(default) when the file is absent, Ok(parsed)
\* when it holds JSON, Err otherwise.
Load(f) ==
    IF f.kind = "missing" THEN [ok |-> TRUE, data |-> DefaultData]
    ELSE IF f.kind = "json" THEN [ok |-> TRUE, data |-> f.data]
    ELSE [ok |-> FALSE, data |-> DefaultData]

\* AccountManager::save: the file holds the JSON text of the data.
Save(d) == JsonFile(d)

\* add_account gone wrong: every added account becomes the active one.
AddAccountAlwaysActive(d, uuid, username, token, t1, t2) ==
    [accounts |-> MapInsert(d.accounts, uuid,
        StoredAccount(uuid, username, token, Rfc3339(t1), Some(Rfc3339(t2)))),
     active_account_uuid |-> Some(uuid)]

\* add_account between its load and its save; t1 and t2 are what the two
\* Utc::now() calls return.
AddAccount(d, uuid, username, token, t1, t2) ==
    LET acc == StoredAccount(uuid, username, token, Rfc3339(t1), Some(Rfc3339(t2)))
    IN  [accounts |-> MapInsert(d.accounts, uuid, acc),
         active_account_uuid |->
            IF d.active_account_uuid = None THEN Some(uuid)
            ELSE d.active_account_uuid]

\* keys().next() gone wrong: never a key.
FirstKeysNone(m) == {None}

\* The keys().next() of remove_account: the first key in the HashMap's
\* iteration order, which is any key of the map; None when it is empty.
FirstKeys(m) == IF DOMAIN m = {} THEN {None} ELSE {Some(k) : k \in DOMAIN m}

\* remove_account gone wrong: the active pointer is left as it was.
RemoveAccountStale(d, uuid) ==
    {[accounts |-> MapRemove(d.accounts, uuid),
      active_account_uuid |-> d.active_account_uuid]}

\* remove_account gone wrong: the active pointer is reassigned on every call.
RemoveAccountReassign(d, uuid) ==
    {[accounts |-> MapRemove(d.accounts, uuid), active_account_uuid |-> a] :
        a \in IF DOMAIN MapRemove(d.accounts, uuid) = {} THEN {None}
              ELSE {Some(k) : k \in DOMAIN MapRemove(d.accounts, uuid)}}

\* remove_account between its load and its save: the stores it may save.
RemoveAccount(d, uuid) ==
    LET rest == MapRemove(d.accounts, uuid)
    IN  IF d.active_account_uuid = Some(uuid)
        THEN {[accounts |-> rest, active_account_uuid |-> a] : a \in FirstKeys(rest)}
        ELSE {[accounts |-> rest, active_account_uuid |-> d.active_account_uuid]}

\* The contains_key check gone wrong: every uuid passes.
AccountExistsAlways(d, uuid) == TRUE

\* The contains_key check of set_active_account.
AccountExists(d, uuid) == uuid \in DOMAIN d.accounts

\* set_active_account gone wrong: last_used is not touched.
SetActiveAccountNoTouch(d, uuid, t) ==
    [accounts |-> d.accounts, active_account_uuid |-> Some(uuid)]

\* set_active_account between its check and its save; t is Utc::now().
SetActiveAccount(d, uuid, t) ==
    [accounts |->
        IF uuid \in DOMAIN d.accounts
        THEN [d.accounts EXCEPT ![uuid].last_used = Some(Rfc3339(t))]
        ELSE d.accounts,
     active_account_uuid |-> Some(uuid)]

\* get_active_account on the loaded data.
GetActiveAccount(d) ==
    IF IsSome(d.active_account_uuid)
    THEN IF Unwrap(d.active_account_uuid) \in DOMAIN d.accounts
         THEN Some(d.accounts[Unwrap(d.active_account_uuid)])
         ELSE None
    ELSE None

\* The AccountInfo get_all_accounts makes of one account.
AccountInfo(d, acc) ==
    [uuid |-> acc.uuid, username |-> acc.username,
     is_active |-> (d.active_account_uuid = Some(acc.uuid)),
     added_at |-> acc.added_at, last_used |-> acc.last_used]

\* The closure get_all_accounts sorts by: the Ordering of a against b.
CmpInfo(a, b) ==
    IF IsSome(b.last_used) /\ IsSome(a.last_used)
        THEN StrCmp(Unwrap(b.last_used), Unwrap(a.last_used))
    ELSE IF IsSome(b.last_used) /\ ~IsSome(a.last_used) THEN -1
    ELSE IF ~IsSome(b.last_used) /\ IsSome(a.last_used) THEN 1
    ELSE 0

RECURSIVE InsertSorted(_, _)
\* x put into the sorted s behind every element that does not order after it.
InsertSorted(s, x) ==
    IF s = <<>> THEN <<x>>
    ELSE IF CmpInfo(x, Head(s)) < 0 THEN <<x>> \o s
    ELSE <<Head(s)>> \o InsertSorted(Tail(s), x)

RECURSIVE SortBy(_)
\* slice::sort_by with CmpInfo: a stable sort.
SortBy(s) ==
    IF s = <<>> THEN <<>>
    ELSE InsertSorted(SortBy(SubSeq(s, 1, Len(s) - 1)), s[Len(s)])

\* The orders in which HashMap::values() may yield the accounts.
ValueOrders(m) ==
    {q \in [1..Cardinality(DOMAIN m) -> DOMAIN m] :
        \A i, j \in DOMAIN q : i # j => q[i] # q[j]}

\* get_all_accounts on the loaded data: the lists it may return.
GetAllAccounts(d) ==
    {SortBy([i \in DOMAIN q |-> AccountInfo(d, d.accounts[q[i]])]) :
        q \in ValueOrders(d.accounts)}

\* ------------------------------------- token lifecycle: the data

\* The uuids get_valid_token is called for, and its callers.
TokenUuids == {"u1", "u2"}
Callers == {"c1", "c2", "c3"}

\* The safety margin of classify, and the lifetime the provider gives a
\* refreshed token, in clock instants.
Skew == 1
ExpiresIn == 3

\* The credential of an account: access_token, refresh_token (an Option),
\* expires_at. Tokens are numbered: 0 is the one of the sign-in, n the one
\* of the n-th refresh exchange.
Credential(access, refresh, expires) ==
    [access_token |-> access, refresh_token |-> refresh, expires_at |-> expires]

\* classify gone wrong: the safety margin is left out.
ClassifyNoSkew(acct, t) ==
    IF t < acct.expires_at THEN "Fresh"
    ELSE IF IsSome(acct.refresh_token) THEN "Refreshable"
    ELSE "Dead"

\* classify gone wrong: an expired credential always counts as refreshable.
ClassifyNeverDead(acct, t) ==
    IF t < acct.expires_at - Skew THEN "Fresh" ELSE "Refreshable"

\* classify(Account, now).
Classify(acct, t) ==
    IF t < acct.expires_at - Skew THEN "Fresh"
    ELSE IF IsSome(acct.refresh_token) THEN "Refreshable"
    ELSE "Dead"

\* What get_valid_token, and a Refresh Ticket, result in.
TokenOk(token) == [ok |-> TRUE, token |-> token, err |-> ""]
TokenErr(err) == [ok |-> FALSE, token |-> 0, err |-> err]

\* A caller that has not called get_valid_token.
IdleCaller ==
    [pc |-> "idle", uuid |-> "", class |-> "", ticket |-> "",
     result |-> TokenErr(""), overlapped |-> FALSE, fetched |-> TokenErr("")]

\* No account, no caller: the token lifecycle at rest.
RcOff ==
    [accts |-> EmptyMap, registry |-> {}, resolved |-> EmptyMap,
     callers |-> EmptyMap, exchanges |-> EmptyMap]

\* ------------------------------------- the other commands, at rest

\* Result<T, E> values.
Ok(v) == [ok |-> TRUE, value |-> v]
Err(e) == [ok |-> FALSE, value |-> e]

\* No skin or cape command called, no request sent.
SkinOff == [tasks |-> EmptyMap, http |-> {}]

\* A file of the launcher other than accounts.json: absent, or holding the
\* JSON text of a list.
NoListFile == [kind |-> "missing", list |-> <<>>]
ListFile(l) == [kind |-> "json", list |-> l]

\* DiscordRpc::new with nobody calling it: the slot is None, no thread has
\* been spawned, no client has been made.
DiscordOff ==
    [client |-> None, callers |-> EmptyMap, threads |-> <<>>, clients |-> 0,
     closed |-> {},
     since |-> [returned |-> FALSE, called |-> FALSE, overlapped |-> FALSE]]

\* No skin command running, no recent-skins file, no servers.json and the
\* DiscordRpc unused.
CommandsOff ==
    /\ skin = SkinOff
    /\ recentSkins = EmptyMap
    /\ servers = NoListFile
    /\ discord = DiscordOff

\* ------------------------------------------------ commands, one at a time

Procs == {"p1", "p2"}

\* A command that has not started.
IdleProc ==
    [pc |-> "idle", op |-> "none", uuid |-> "", cred |-> <<"", "">>,
     local |-> DefaultData, ok |-> TRUE]

NoCall ==
    [op |-> "none", uuid |-> "", cred |-> <<"", "">>, ok |-> TRUE,
     saved |-> FALSE, wasActive |-> FALSE, wasPresent |-> FALSE]

\* The call a step ran: its operation and arguments, whether it returned Ok,
\* whether it reached save, and whether its uuid was the active account, and
\* an account, of the data d it loaded.
Call(op, uuid, cred, ok, saved, d) ==
    [op |-> op, uuid |-> uuid, cred |-> cred, ok |-> ok, saved |-> saved,
     wasActive |-> (d.active_account_uuid = Some(uuid)),
     wasPresent |-> (uuid \in DOMAIN d.accounts)]

\* add_account(uuid, username, access_token), from load to save.
AddAccountCall(uuid, cred) ==
    LET r == Load(file)
    IN  /\ lastCall' = Call("add", uuid, cred, r.ok, r.ok, r.data)
        /\ ret' = None
        /\ IF r.ok
           THEN \E t1 \in now..MaxTime : \E t2 \in t1..MaxTime :
                    /\ file' = Save(AddAccount(r.data, uuid, cred[1], cred[2], t1, t2))
                    /\ now' = t2
           ELSE UNCHANGED <<file, now>>
        /\ UNCHANGED <<concVars, rc, cmdVars>>

\* remove_account(uuid), from load to save.
RemoveAccountCall(uuid) ==
    LET r == Load(file)
    IN  /\ lastCall' = Call("remove", uuid, <<"", "">>, r.ok, r.ok, r.data)
        /\ ret' = None
        /\ IF r.ok
           THEN \E d \in RemoveAccount(r.data, uuid) : file' = Save(d)
           ELSE UNCHANGED file
        /\ UNCHANGED <<now, concVars, rc, cmdVars>>

\* set_active_account(uuid), from load to save or to its early return.
SetActiveAccountCall(uuid) ==
    LET r == Load(file)
        found == r.ok /\ AccountExists(r.data, uuid)
    IN  /\ lastCall' = Call("set_active", uuid, <<"", "">>, found, found, r.data)
        /\ ret' = None
        /\ IF found
           THEN \E t \in now..MaxTime :
                    /\ file' = Save(SetActiveAccount(r.data, uuid, t))
                    /\ now' = t
           ELSE UNCHANGED <<file, now>>
        /\ UNCHANGED <<concVars, rc, cmdVars>>

\* get_active_account().
GetActiveAccountCall ==
    LET r == Load(file)
    IN  /\ lastCall' = Call("get_active", "", <<"", "">>, r.ok, FALSE, r.data)
        /\ ret' = IF r.ok THEN GetActiveAccount(r.data) ELSE None
        /\ UNCHANGED <<file, now, concVars, rc, cmdVars>>

\* get_all_accounts().
GetAllAccountsCall ==
    LET r == Load(file)
    IN  /\ lastCall' = Call("get_all", "", <<"", "">>, r.ok, FALSE, r.data)
        /\ IF r.ok THEN ret' \in GetAllAccounts(r.data) ELSE ret' = None
        /\ UNCHANGED <<file, now, concVars, rc, cmdVars>>

SeqInit ==
    /\ file = MissingFile
    /\ now = 0
    /\ lastCall = NoCall
    /\ ret = None
    /\ procs = [p \in Procs |-> IdleProc]
    /\ rc = RcOff
    /\ CommandsOff
    /\ file0 = MissingFile

SeqNext ==
    \/ \E u \in Uuids : \E c \in Credentials : AddAccountCall(u, c)
    \/ \E u \in Uuids : RemoveAccountCall(u)
    \/ \E u \in Uuids : SetActiveAccountCall(u)
    \/ GetActiveAccountCall
    \/ GetAllAccountsCall

\* The commands run one after another, each to completion.
SeqSpec == SeqInit /\ [][SeqNext]_vars

\* What accounts.json may hold when the program starts, before it has ever
\* saved a store: nothing, or text that is no JSON document (an empty file,
\* a damaged one).
AnyFileInit ==
    /\ file \in {MissingFile, EmptyFile, CorruptFile}
    /\ file0 = file
    /\ now = 0
    /\ lastCall = NoCall
    /\ ret = None
    /\ procs = [p \in Procs |-> IdleProc]
    /\ rc = RcOff
    /\ CommandsOff

\* The commands run one after another on the file found at start.
AnyFileSpec == AnyFileInit /\ [][SeqNext]_vars

\* ------------------------------------------------ commands, concurrently

\* The stores earlier runs of the program leave behind: no file, or a file
\* whose accounts were added at instant 0 by one sign-in each, one of them
\* the active account.
EarlierAccount(u) ==
    StoredAccount(u, "Alice", "tokA", Rfc3339(0), Some(Rfc3339(0)))

EarlierFiles ==
    {MissingFile} \cup
    {JsonFile([accounts |-> [u \in K |-> EarlierAccount(u)],
               active_account_uuid |-> a]) :
        K \in SUBSET Uuids, a \in {None} \cup {Some(u) : u \in Uuids}}

\* The active pointer names an account, and is set when there is one:
\* what every store written by a completed sequence of commands satisfies.
WellFormed(d) ==
    /\ IsSome(d.active_account_uuid) => Unwrap(d.active_account_uuid) \in DOMAIN d.accounts
    /\ d.active_account_uuid = None => DOMAIN d.accounts = {}

\* A command is called: it loads the file (the first statement of each of
\* add_account, remove_account and set_active_account).
BeginCall(p, op, uuid, cred) ==
    LET r == Load(file)
    IN  /\ procs[p].pc = "idle"
        /\ procs' = [procs EXCEPT ![p] =
                [pc |-> IF r.ok THEN "loaded" ELSE "done",
                 op |-> op, uuid |-> uuid, cred |-> cred,
                 local |-> r.data, ok |-> r.ok]]
        /\ UNCHANGED <<file, now, seqVars, file0, rc, cmdVars>>

\* add_account, lines 43-57: the account is built with two Utc::now() reads
\* and put into the loaded data.
ModifyAdd(p) ==
    LET me == procs[p]
    IN  /\ me.pc = "loaded" /\ me.op = "add"
        /\ \E t1 \in now..MaxTime : \E t2 \in t1..MaxTime :
              /\ procs' = [procs EXCEPT ![p].pc = "modified", ![p].local =
                    AddAccount(me.local, me.uuid, me.cred[1], me.cred[2], t1, t2)]
              /\ now' = t2
        /\ UNCHANGED <<file, seqVars, file0, rc, cmdVars>>

\* remove_account, lines 68-77.
ModifyRemove(p) ==
    LET me == procs[p]
    IN  /\ me.pc = "loaded" /\ me.op = "remove"
        /\ \E d \in RemoveAccount(me.local, me.uuid) :
              procs' = [procs EXCEPT ![p].pc = "modified", ![p].local = d]
        /\ UNCHANGED <<file, now, seqVars, file0, rc, cmdVars>>

\* set_active_account, lines 88-97: the early return, or the update.
ModifySetActive(p) ==
    LET me == procs[p]
    IN  /\ me.pc = "loaded" /\ me.op = "set_active"
        /\ IF AccountExists(me.local, me.uuid)
           THEN \E t \in now..MaxTime :
                    /\ procs' = [procs EXCEPT ![p].pc = "modified", ![p].local =
                            SetActiveAccount(me.local, me.uuid, t)]
                    /\ now' = t
           ELSE /\ procs' = [procs EXCEPT ![p].pc = "done", ![p].ok = FALSE]
                /\ UNCHANGED now
        /\ UNCHANGED <<file, seqVars, file0, rc, cmdVars>>

\* save, line 31, first half: fs::write creates the file or truncates it.
SaveTruncate(p) ==
    /\ procs[p].pc = "modified"
    /\ file' = EmptyFile
    /\ procs' = [procs EXCEPT ![p].pc = "truncated"]
    /\ UNCHANGED <<now, seqVars, file0, rc, cmdVars>>

\* What the file holds after `text` is written from offset 0 into a file
\* holding f: the text when the file was empty; otherwise the text, or the
\* text followed by the rest of a longer content, which is no JSON document.
WriteOver(f, d) ==
    IF f.kind = "empty" THEN {JsonFile(d)} ELSE {JsonFile(d), CorruptFile}

\* save, line 31, second half: fs::write writes the JSON text; the command
\* returns Ok.
SaveWrite(p) ==
    /\ procs[p].pc = "truncated"
    /\ file' \in WriteOver(file, procs[p].local)
    /\ procs' = [procs EXCEPT ![p].pc = "done"]
    /\ UNCHANGED <<now, seqVars, file0, rc, cmdVars>>

Init ==
    /\ file0 \in {f \in EarlierFiles : WellFormed(f.data)}
    /\ file = file0
    /\ now = 0
    /\ lastCall = NoCall
    /\ ret = None
    /\ procs = [p \in Procs |-> IdleProc]
    /\ rc = RcOff
    /\ CommandsOff

Next ==
    \/ \E p \in Procs, u \in Uuids, c \in Credentials : BeginCall(p, "add", u, c)
    \/ \E p \in Procs, u \in Uuids : BeginCall(p, "remove", u, <<"", "">>)
    \/ \E p \in Procs, u \in Uuids : BeginCall(p, "set_active", u, <<"", "">>)
    \/ \E p \in Procs : ModifyAdd(p)
    \/ \E p \in Procs : ModifyRemove(p)
    \/ \E p \in Procs : ModifySetActive(p)
    \/ \E p \in Procs : SaveTruncate(p)
    \/ \E p \in Procs : SaveWrite(p)

\* Every command is its own task: their file accesses interleave freely.
Spec == Init /\ [][Next]_vars

\* ------------------------------- one command, readers, failures, a crash

\* The task that runs the mutating command of SaveSpec.
Writers == {"p1"}

\* save, line 31, fs::write fails before it has touched the file (the file
\* cannot be created or opened for writing): `?` returns the error.
SaveCreateFails(p) ==
    /\ procs[p].pc = "modified"
    /\ procs' = [procs EXCEPT ![p].pc = "failed", ![p].ok = FALSE]
    /\ UNCHANGED <<file, now, seqVars, file0, rc, cmdVars>>

\* What a write that stops early leaves of a file holding f: f as it is
\* (nothing written), or a part of the JSON text, which is no JSON document.
PartWritten(f) == {f, CorruptFile}

\* save, line 31, fs::write fails after it has truncated the file (the disk
\* is full): `?` returns the error.
SaveWriteFails(p) ==
    /\ procs[p].pc = "truncated"
    /\ file' \in PartWritten(file)
    /\ procs' = [procs EXCEPT ![p].pc = "failed", ![p].ok = FALSE]
    /\ UNCHANGED <<now, seqVars, file0, rc, cmdVars>>

\* The process terminates while commands are running: none of them goes on.
\* A command inside fs::write leaves the file as far as it has written it.
Crash ==
    /\ \E p \in Procs : procs[p].pc \in {"loaded", "modified", "truncated"}
    /\ file' \in IF \E p \in Procs : procs[p].pc = "truncated"
                 THEN PartWritten(file) ELSE {file}
    /\ procs' = [p \in Procs |->
            IF procs[p].pc \in {"loaded", "modified", "truncated"}
            THEN [procs[p] EXCEPT !.pc = "crashed", !.ok = FALSE]
            ELSE procs[p]]
    /\ UNCHANGED <<now, seqVars, file0, rc, cmdVars>>

SaveNext ==
    \/ \E p \in Writers, u \in Uuids, c \in Credentials : BeginCall(p, "add", u, c)
    \/ \E p \in Writers, u \in Uuids : BeginCall(p, "remove", u, <<"", "">>)
    \/ \E p \in Writers, u \in Uuids : BeginCall(p, "set_active", u, <<"", "">>)
    \/ \E p \in Writers : ModifyAdd(p)
    \/ \E p \in Writers : ModifyRemove(p)
    \/ \E p \in Writers : ModifySetActive(p)
    \/ \E p \in Writers : SaveTruncate(p)
    \/ \E p \in Writers : SaveWrite(p)
    \/ \E p \in Writers : SaveCreateFails(p)
    \/ \E p \in Writers : SaveWriteFails(p)
    \/ Crash
    \/ GetActiveAccountCall
    \/ GetAllAccountsCall

\* One mutating command, whose save may fail and whose process may
\* terminate, while read-only queries are called at any moment (after a
\* crash: by the process started next).
SaveSpec == Init /\ [][SaveNext]_vars

\* ------------------------------- token lifecycle: get_valid_token

\* get_valid_token(u), first step: the account is read and classified.
\* Fresh returns the cached token, Dead fails, Refreshable goes on to the
\* Refresh Coordinator.
GetValidToken(c, u) ==
    LET me == rc.callers[c]
        class == Classify(rc.accts[u], now)
        started == [me EXCEPT !.uuid = u, !.class = class,
                        !.overlapped = \A d \in Callers :
                            rc.callers[d].uuid = u => rc.callers[d].pc # "done"]
    IN  /\ me.pc = "idle"
        /\ rc' = [rc EXCEPT !.callers[c] =
                IF class = "Fresh"
                    THEN [started EXCEPT !.pc = "done",
                            !.result = TokenOk(rc.accts[u].access_token)]
                ELSE IF class = "Dead"
                    THEN [started EXCEPT !.pc = "done",
                            !.result = TokenErr("ReauthenticationRequired")]
                ELSE [started EXCEPT !.pc = "enter"]]
        /\ UNCHANGED <<file, now, seqVars, concVars, cmdVars>>

\* The Ticket registered for u, if any.
TicketsFor(u) == {t \in rc.registry : t.uuid = u}

\* refresh(u), on entry: check-and-register, atomically. A caller that
\* finds a Ticket for u awaits it; one that finds none registers its own.
RefreshEnter(c) ==
    LET me == rc.callers[c]
    IN  /\ me.pc = "enter"
        /\ IF TicketsFor(me.uuid) # {}
           THEN \E t \in TicketsFor(me.uuid) :
                    rc' = [rc EXCEPT !.callers[c].pc = "await",
                                     !.callers[c].ticket = t.owner]
           ELSE rc' = [rc EXCEPT
                    !.registry = @ \cup {[uuid |-> me.uuid, owner |-> c]},
                    !.callers[c].pc = "exchange",
                    !.callers[c].ticket = c]
        /\ UNCHANGED <<file, now, seqVars, concVars, cmdVars>>

\* The number of refresh exchanges made so far.
TotalExchanges ==
    LET RECURSIVE Sum(_)
        Sum(U) == IF U = {} THEN 0
                  ELSE LET u == CHOOSE x \in U : TRUE
                       IN  rc.exchanges[u] + Sum(U \ {u})
    IN  Sum(TokenUuids)

\* The Ticket's owner makes the provider token-refresh exchange: it yields
\* a new access token, refresh token and expiry, or fails.
RefreshExchange(c) ==
    LET me == rc.callers[c]
        n == TotalExchanges + 1
    IN  /\ me.pc = "exchange"
        /\ \E out \in {TokenOk(n), TokenErr("NetworkFailure"),
                        TokenErr("InvalidRefreshToken")} :
              rc' = [rc EXCEPT
                    !.exchanges[me.uuid] = @ + 1,
                    !.callers[c].fetched = out,
                    !.callers[c].pc =
                        IF out.ok THEN "commit"
                        ELSE IF out.err = "InvalidRefreshToken" THEN "downgrade"
                        ELSE "resolve"]
        /\ UNCHANGED <<file, now, seqVars, concVars, cmdVars>>

\* On success the owner commits the new credential through the Mutation
\* Gate.
RefreshCommit(c) ==
    LET me == rc.callers[c]
    IN  /\ me.pc = "commit"
        /\ rc' = [rc EXCEPT
                !.accts[me.uuid] = Credential(me.fetched.token,
                                        Some(me.fetched.token), now + ExpiresIn),
                !.callers[c].pc = "resolve"]
        /\ UNCHANGED <<file, now, seqVars, concVars, cmdVars>>

\* When the provider rejected the refresh token, the owner downgrades the
\* account to Dead-equivalent: without a refresh token the next classify
\* reports that it needs re-authentication.
RefreshDowngrade(c) ==
    LET me == rc.callers[c]
    IN  /\ me.pc = "downgrade"
        /\ rc' = [rc EXCEPT
                !.accts[me.uuid].refresh_token = None,
                !.callers[c].pc = "resolve"]
        /\ UNCHANGED <<file, now, seqVars, concVars, cmdVars>>

\* The owner resolves its Ticket with the outcome and removes it from the
\* registry; it returns the outcome.
RefreshResolve(c) ==
    LET me == rc.callers[c]
    IN  /\ me.pc = "resolve"
        /\ rc' = [rc EXCEPT
                !.registry = @ \ {[uuid |-> me.uuid, owner |-> c]},
                !.resolved[c] = Some(me.fetched),
                !.callers[c].pc = "done",
                !.callers[c].result = me.fetched]
        /\ UNCHANGED <<file, now, seqVars, concVars, cmdVars>>

\* A caller awaiting a Ticket returns what the Ticket was resolved with.
AwaitTicket(c) ==
    LET me == rc.callers[c]
    IN  /\ me.pc = "await"
        /\ IsSome(rc.resolved[me.ticket])
        /\ rc' = [rc EXCEPT !.callers[c].pc = "done",
                            !.callers[c].result = Unwrap(rc.resolved[me.ticket])]
        /\ UNCHANGED <<file, now, seqVars, concVars, cmdVars>>

\* Time passes.
Tick ==
    /\ now < MaxTime
    /\ now' = now + 1
    /\ UNCHANGED <<file, seqVars, concVars, rc, cmdVars>>

TokenInit ==
    /\ file = MissingFile
    /\ file0 = MissingFile
    /\ now = 0
    /\ lastCall = NoCall
    /\ ret = None
    /\ procs = [p \in Procs |-> IdleProc]
    /\ CommandsOff
    /\ \E accts \in [TokenUuids ->
                {Credential(0, r, e) : r \in {None, Some(0)}, e \in 0..(MaxTime + 1)}] :
          rc = [accts |-> accts, registry |-> {},
                resolved |-> [c \in Callers |-> None],
                callers |-> [c \in Callers |-> IdleCaller],
                exchanges |-> [u \in TokenUuids |-> 0]]

TokenNext ==
    \/ \E c \in Callers, u \in TokenUuids : GetValidToken(c, u)
    \/ \E c \in Callers : RefreshEnter(c)
    \/ \E c \in Callers : RefreshExchange(c)
    \/ \E c \in Callers : RefreshCommit(c)
    \/ \E c \in Callers : RefreshDowngrade(c)
    \/ \E c \in Callers : RefreshResolve(c)
    \/ \E c \in Callers : AwaitTicket(c)
    \/ Tick

\* Callers of get_valid_token, each its own task, one call each.
TokenSpec == TokenInit /\ [][TokenNext]_vars

\* --------------------------------------------- queries on a stored file

\* The files load() accepts with up to one account per uuid: last_used is
\* an Option, so an account may carry none (a file an earlier version or
\* another tool wrote); the active pointer is none or a key.
AnyAccount(u, used) == StoredAccount(u, "Alice", "tokA", Rfc3339(0), used)

LastUsedValues == {None} \cup {Some(Rfc3339(t)) : t \in 0..MaxTime}

StoredFiles ==
    {JsonFile([accounts |-> [u \in DOMAIN used |-> AnyAccount(u, used[u])],
               active_account_uuid |-> a]) :
        used \in UNION {[K -> LastUsedValues] : K \in SUBSET Uuids},
        a \in {None} \cup {Some(u) : u \in Uuids}}

QueryInit ==
    /\ file0 \in {f \in StoredFiles :
            IsSome(f.data.active_account_uuid) =>
                Unwrap(f.data.active_account_uuid) \in DOMAIN f.data.accounts}
    /\ file = file0
    /\ now = 0
    /\ lastCall = NoCall
    /\ ret = None
    /\ procs = [p \in Procs |-> IdleProc]
    /\ rc = RcOff
    /\ CommandsOff

QueryNext ==
    \/ GetActiveAccountCall
    \/ GetAllAccountsCall

\* The read-only queries, on any file load() accepts.
QuerySpec == QueryInit /\ [][QueryNext]_vars

\* ------------------------------------------- skin and cape commands

\* The tasks that run a skin or cape command, and the commands.
SkinTasks == {"k1", "k2"}
SkinCommands ==
    {"upload_skin", "reset_skin", "get_current_skin", "get_user_capes",
     "equip_cape", "remove_cape"}

\* A task that has not been given a command.
IdleTask ==
    [pc |-> "idle", cmd |-> "", account |-> None, token |-> Err(""),
     result |-> Err("")]

\* The token a command sends gone wrong: the access_token stored with the
\* account, not the one get_valid_token returned.
BearerTokenStored(me) == Unwrap(me.account).access_token

\* The token a command hands to bearer_auth: the access_token variable, bound
\* to what get_valid_token returned.
BearerToken(me) == me.token.value

\* A command is called. upload_skin checks its variant first. Then each
\* command calls get_active_account and returns an error when that fails or
\* returns no account.
SkinBegin(k, cmd, variantOk) ==
    LET r == Load(file)
        acct == IF r.ok THEN GetActiveAccount(r.data) ELSE None
        me == [IdleTask EXCEPT !.cmd = cmd]
    IN  /\ skin.tasks[k].pc = "idle"
        /\ cmd = "upload_skin" \/ variantOk
        /\ skin' = [skin EXCEPT !.tasks[k] =
                IF cmd = "upload_skin" /\ ~variantOk
                    THEN [me EXCEPT !.pc = "done", !.result = Err("Invalid skin variant")]
                ELSE IF ~r.ok
                    THEN [me EXCEPT !.pc = "done",
                                    !.result = Err("Failed to get active account")]
                ELSE IF acct = None
                    THEN [me EXCEPT !.pc = "done", !.result = Err("No active account")]
                ELSE [me EXCEPT !.pc = "token", !.account = acct]]
        /\ UNCHANGED <<file, now, seqVars, concVars, rc, recentSkins, servers, discord>>

\* What get_valid_token(uuid) may return for an account: the token stored
\* with it, a refreshed one, or an error.
ValidTokenResults(acct) ==
    {Ok(acct.access_token), Ok("tokR"), Err("Failed to get valid token")}

\* get_valid_token(&active_account.uuid).await returns: the command goes
\* on with the token, or returns the error.
SkinToken(k) ==
    LET me == skin.tasks[k]
    IN  /\ me.pc = "token"
        /\ \E t \in ValidTokenResults(Unwrap(me.account)) :
              skin' = [skin EXCEPT !.tasks[k] =
                    IF t.ok THEN [me EXCEPT !.pc = "send", !.token = t]
                    ELSE [me EXCEPT !.pc = "done", !.token = t, !.result = t]]
        /\ UNCHANGED <<file, now, seqVars, concVars, rc, recentSkins, servers, discord>>

\* The command builds its request and sends it with bearer_auth. upload_skin
\* decodes and checks the image first, and returns an error when it is not
\* a PNG skin of the right size.
SkinSend(k, imageOk) ==
    LET me == skin.tasks[k]
    IN  /\ me.pc = "send"
        /\ me.cmd = "upload_skin" \/ imageOk
        /\ skin' =
            IF me.cmd = "upload_skin" /\ ~imageOk
            THEN [skin EXCEPT !.tasks[k].pc = "done",
                              !.tasks[k].result = Err("Invalid image")]
            ELSE [skin EXCEPT !.tasks[k].pc = "sent",
                              !.http = @ \cup {[task |-> k, cmd |-> me.cmd,
                                                bearer |-> Some(BearerToken(me))]}]
        /\ UNCHANGED <<file, now, seqVars, concVars, rc, recentSkins, servers, discord>>

\* send().await returns: an error, a status that is no success, or a
\* success. get_current_skin then asks the session server for the cape, in
\* a request that carries no token, and ignores its failure.
SkinResponse(k, outcome) ==
    LET me == skin.tasks[k]
    IN  /\ me.pc = "sent"
        /\ skin' = [skin EXCEPT
                !.tasks[k].pc = "done",
                !.tasks[k].result = IF outcome = "success" THEN Ok(me.cmd)
                                    ELSE Err(outcome),
                !.http = IF outcome = "success" /\ me.cmd = "get_current_skin"
                         THEN @ \cup {[task |-> k, cmd |-> "get_player_cape",
                                       bearer |-> None]}
                         ELSE @]
        /\ UNCHANGED <<file, now, seqVars, concVars, rc, recentSkins, servers, discord>>

\* accounts.json as the skin commands find it: any store earlier runs left,
\* no file, or a file that does not parse.
SkinInit ==
    /\ file0 \in {f \in EarlierFiles : WellFormed(f.data)} \cup {CorruptFile}
    /\ file = file0
    /\ now = 0
    /\ lastCall = NoCall
    /\ ret = None
    /\ procs = [p \in Procs |-> IdleProc]
    /\ rc = RcOff
    /\ skin = [tasks |-> [k \in SkinTasks |-> IdleTask], http |-> {}]
    /\ recentSkins = EmptyMap
    /\ servers = NoListFile
    /\ discord = DiscordOff

SkinNext ==
    \/ \E k \in SkinTasks, cmd \in SkinCommands, v \in BOOLEAN : SkinBegin(k, cmd, v)
    \/ \E k \in SkinTasks : SkinToken(k)
    \/ \E k \in SkinTasks, v \in BOOLEAN : SkinSend(k, v)
    \/ \E k \in SkinTasks, o \in {"send failed", "status", "success"} :
            SkinResponse(k, o)

\* Skin and cape commands, each its own task, one command each.
SkinSpec == SkinInit /\ [][SkinNext]_vars

\* ------------------------------------------------------- recent skins

\* The account recent skins are kept for, the skin urls and the variants.
SkinAccounts == {"u1"}
SkinUrls == {"url1", "url2", "url3", "url4"}
Variants == {"classic", "slim"}

\* skins.truncate(3): the number of recent skins kept.
RecentLimit == 3

\* RecentSkin { url, variant, timestamp }
RecentSkin(url, variant, timestamp) ==
    [url |-> url, variant |-> variant, timestamp |-> timestamp]

\* load_recent_skins on the file of one account: no list when it is absent,
\* an error when it does not parse.
LoadRecentSkins(f) ==
    IF f.kind = "missing" THEN Ok(<<>>)
    ELSE IF f.kind = "json" THEN Ok(f.list)
    ELSE Err("Failed to parse recent skins")

\* The skins save_recent_skin starts from: the list in the file; none when
\* the file is absent, and none (unwrap_or_default) when it does not parse.
ExistingSkins(f) == IF f.kind = "json" THEN f.list ELSE <<>>

\* skins.retain(|s| s.url != skin_url)
Retain(skins, skin_url) ==
    LET RECURSIVE Keep(_)
        Keep(l) == IF l = <<>> THEN <<>>
                   ELSE IF Head(l).url # skin_url THEN <<Head(l)>> \o Keep(Tail(l))
                   ELSE Keep(Tail(l))
    IN  Keep(skins)

\* skins.truncate(len)
Truncate(skins, len) ==
    IF Len(skins) > len THEN SubSeq(skins, 1, len) ELSE skins

\* save_recent_skin gone wrong: the url is not removed before it is put in
\* front.
SaveRecentSkinNoRetain(skins, skin_url, variant, timestamp) ==
    Truncate(<<RecentSkin(skin_url, variant, timestamp)>> \o skins, RecentLimit)

\* save_recent_skin between its load and its write: retain, insert(0, ..),
\* truncate(3).
SaveRecentSkin(skins, skin_url, variant, timestamp) ==
    Truncate(<<RecentSkin(skin_url, variant, timestamp)>> \o Retain(skins, skin_url),
             RecentLimit)

\* The place of skin_url in the list, 0 when it is not in it.
PlaceOf(skins, skin_url) ==
    IF \E i \in DOMAIN skins : skins[i].url = skin_url
    THEN CHOOSE i \in DOMAIN skins : skins[i].url = skin_url
    ELSE 0

\* save_recent_skin(account_uuid, skin_url, variant); the timestamp is the
\* time of the call.
SaveRecentSkinCall(account_uuid, skin_url, variant) ==
    LET skins == ExistingSkins(recentSkins[account_uuid])
    IN  /\ recentSkins' = [recentSkins EXCEPT ![account_uuid] =
                ListFile(SaveRecentSkin(skins, skin_url, variant, now))]
        /\ lastCall' = [op |-> "save_recent_skin", uuid |-> account_uuid,
                        url |-> skin_url, variant |-> variant,
                        was |-> PlaceOf(skins, skin_url)]
        /\ ret' = Ok(<<>>)
        /\ UNCHANGED <<file, now, concVars, rc, skin, servers, discord>>

\* load_recent_skins(account_uuid).
LoadRecentSkinsCall(account_uuid) ==
    /\ lastCall' = [op |-> "load_recent_skins", uuid |-> account_uuid,
                    url |-> "", variant |-> "", was |-> 0]
    /\ ret' = LoadRecentSkins(recentSkins[account_uuid])
    /\ UNCHANGED <<file, now, concVars, rc, skin, recentSkins, servers, discord>>

\* No recent-skins file yet.
RecentInit ==
    /\ file = MissingFile
    /\ file0 = MissingFile
    /\ now = 0
    /\ lastCall = NoCall
    /\ ret = None
    /\ procs = [p \in Procs |-> IdleProc]
    /\ rc = RcOff
    /\ skin = SkinOff
    /\ recentSkins = [u \in SkinAccounts |-> NoListFile]
    /\ servers = NoListFile
    /\ discord = DiscordOff

RecentNext ==
    \/ \E u \in SkinAccounts, url \in SkinUrls, v \in Variants :
            SaveRecentSkinCall(u, url, v)
    \/ \E u \in SkinAccounts : LoadRecentSkinsCall(u)
    \/ Tick

\* save_recent_skin and load_recent_skins called one after another, as time
\* passes.
RecentSpec == RecentInit /\ [][RecentNext]_vars

\* ------------------------------------------------------ the server list

\* Server names as the characters they are made of: "Hub", "hub", "HUB"
\* and "Pvp".
ServerNames ==
    {<<72, 117, 98>>, <<104, 117, 98>>, <<72, 85, 66>>, <<80, 118, 112>>}

Addresses == {"a.example.org", "b.example.org"}
Ports == {0, 25565}

\* char::to_lowercase on the characters modelled, and str::to_lowercase.
ToLower(c) == IF c >= 65 /\ c <= 90 THEN c + 32 ELSE c
ToLowercase(str) == [i \in DOMAIN str |-> ToLower(str[i])]

\* What sanitize_server_name(&name) may return: an error, or the safe name.
SanitizeResults == {Err("Invalid server name")} \cup {Ok(n) : n \in ServerNames}

\* The ServerInfo add_server makes.
NewServer(name, address, port) ==
    [name |-> name, address |-> address, port |-> port, status |-> "unknown",
     players_online |-> None, players_max |-> None, version |-> None,
     motd |-> None, favicon |-> None, last_checked |-> None]

\* The ServerInfo values update_server_status is given: a server that
\* answered, and one that did not. Their name, address and port are not
\* those of any stored server.
StatusReports ==
    {[name |-> <<>>, address |-> "", port |-> 0, status |-> "online",
      players_online |-> Some(5), players_max |-> Some(20),
      version |-> Some("1.20"), motd |-> Some("motd"), favicon |-> None,
      last_checked |-> None],
     [name |-> <<>>, address |-> "", port |-> 0, status |-> "offline",
      players_online |-> None, players_max |-> None, version |-> None,
      motd |-> None, favicon |-> None, last_checked |-> None]}

\* get_servers on servers.json: no server when the file is absent, an error
\* when it does not parse.
GetServers(f) ==
    IF f.kind = "missing" THEN Ok(<<>>)
    ELSE IF f.kind = "json" THEN Ok(f.list)
    ELSE Err("Failed to parse servers file")

\* add_server gone wrong: names are compared as they are.
AddServerExactMatch(list, safe_name, address, port) ==
    IF \E i \in DOMAIN list : list[i].name = safe_name
    THEN Err("already exists")
    ELSE Ok(Append(list, NewServer(safe_name, address, port)))

\* add_server on the loaded list: an error when a server has the same name
\* in lower case, otherwise the list with the new server pushed.
AddServer(list, safe_name, address, port) ==
    IF \E i \in DOMAIN list : ToLowercase(list[i].name) = ToLowercase(safe_name)
    THEN Err("already exists")
    ELSE Ok(Append(list, NewServer(safe_name, address, port)))

\* delete_server on the loaded list: retain the servers of another name; an
\* error when that removed none.
DeleteServer(list, safe_name) ==
    LET RECURSIVE Keep(_)
        Keep(l) == IF l = <<>> THEN <<>>
                   ELSE IF Head(l).name # safe_name THEN <<Head(l)>> \o Keep(Tail(l))
                   ELSE Keep(Tail(l))
    IN  IF Len(Keep(list)) = Len(list) THEN Err("not found") ELSE Ok(Keep(list))

\* update_server_status on the loaded list: the first server of that name
\* takes the status fields given and the time of the check, in seconds; an
\* error when there is none.
UpdateServerStatus(list, safe_name, status, t) ==
    IF \E i \in DOMAIN list : list[i].name = safe_name
    THEN LET i == CHOOSE k \in DOMAIN list :
                    /\ list[k].name = safe_name
                    /\ \A j \in 1..(k - 1) : list[j].name # safe_name
         IN  Ok([list EXCEPT ![i] =
                    [@ EXCEPT !.status = status.status,
                              !.players_online = status.players_online,
                              !.players_max = status.players_max,
                              !.version = status.version,
                              !.motd = status.motd,
                              !.favicon = status.favicon,
                              !.last_checked = Some(t \div 4)]])
    ELSE Err("not found")

\* servers.json after a command with outcome r: Ok with the list it wrote,
\* or Err with nothing written.
Written(r) == IF r.ok THEN ListFile(r.value) ELSE servers

\* The call of a command of servers.rs: the name sanitize_server_name
\* returned for it (if it returned one) and whether the command returned Ok.
ServerCall(op, sanitized, r) ==
    [op |-> op, ok |-> r.ok,
     name |-> IF sanitized.ok THEN sanitized.value ELSE <<>>,
     sane |-> sanitized.ok]

\* add_server(name, address, port): sanitize the name, validate the address,
\* refuse port 0, load, add, write.
AddServerCall(sanitized, address, addressOk, port) ==
    LET g == GetServers(servers)
        r == IF ~sanitized.ok THEN sanitized
             ELSE IF ~addressOk THEN Err("Invalid server address")
             ELSE IF port = 0 THEN Err("Port cannot be 0")
             ELSE IF ~g.ok THEN g
             ELSE AddServer(g.value, sanitized.value, address, port)
    IN  /\ servers' = Written(r)
        /\ lastCall' = ServerCall("add_server", sanitized, r)
        /\ ret' = None
        /\ UNCHANGED <<file, now, concVars, rc, skin, recentSkins, discord>>

\* delete_server(server_name).
DeleteServerCall(sanitized) ==
    LET g == GetServers(servers)
        r == IF ~sanitized.ok THEN sanitized
             ELSE IF ~g.ok THEN g
             ELSE DeleteServer(g.value, sanitized.value)
    IN  /\ servers' = Written(r)
        /\ lastCall' = ServerCall("delete_server", sanitized, r)
        /\ ret' = None
        /\ UNCHANGED <<file, now, concVars, rc, skin, recentSkins, discord>>

\* update_server_status(server_name, status).
UpdateServerStatusCall(sanitized, status) ==
    LET g == GetServers(servers)
        r == IF ~sanitized.ok THEN sanitized
             ELSE IF ~g.ok THEN g
             ELSE UpdateServerStatus(g.value, sanitized.value, status, now)
    IN  /\ servers' = Written(r)
        /\ lastCall' = ServerCall("update_server_status", sanitized, r)
        /\ ret' = None
        /\ UNCHANGED <<file, now, concVars, rc, skin, recentSkins, discord>>

\* No servers.json yet: the empty server list.
ServerInit ==
    /\ file = MissingFile
    /\ file0 = MissingFile
    /\ now = 0
    /\ lastCall = NoCall
    /\ ret = None
    /\ procs = [p \in Procs |-> IdleProc]
    /\ rc = RcOff
    /\ skin = SkinOff
    /\ recentSkins = EmptyMap
    /\ servers = NoListFile
    /\ discord = DiscordOff

ServerNext ==
    \/ \E n \in SanitizeResults, a \in Addresses, v \in BOOLEAN, p \in Ports :
            AddServerCall(n, a, v, p)
    \/ \E n \in SanitizeResults : DeleteServerCall(n)
    \/ \E n \in SanitizeResults, st \in StatusReports : UpdateServerStatusCall(n, st)
    \/ Tick

\* The commands of servers.rs called one after another, as time passes.
ServerSpec == ServerInit /\ [][ServerNext]_vars

\* ------------------------------------------------------------ DiscordRpc

\* The threads that share the DiscordRpc and call its methods (they take
\* &self, and the slot is an Arc<Mutex<..>>).
RpcCallers == {"c1", "c2"}

\* What set_activity is asked to show.
Activities == {"playing", "browsing"}

\* How many background threads set_activity spawns in a run.
MaxThreads == 3

\* DiscordIpcClient::new and connect: both fine, new fails, connect fails.
ConnectResults == {"connected", "new failed", "connect failed"}

\* A caller outside every method of the DiscordRpc.
IdleRpcCaller == [pc |-> "idle", activity |-> "", cut |-> FALSE]

\* set_activity calls that will still spawn their thread, and threads spawned.
Spawning == Cardinality({c \in RpcCallers : discord.callers[c].pc \in {"ensure", "spawn"}})
                + Len(discord.threads)

\* set_activity is called: the caller is about to run ensure_connected.
SetActivityCall(c, activity) ==
    /\ discord.callers[c].pc = "idle"
    /\ Spawning < MaxThreads
    /\ discord' = [discord EXCEPT
            !.callers[c] = [pc |-> "ensure", activity |-> activity, cut |-> FALSE],
            !.since.called = TRUE]
    /\ UNCHANGED <<file, now, seqVars, concVars, rc, skin, recentSkins, servers>>

\* ensure_connected, the whole of it under the lock: a full slot is left as
\* it is; an empty one gets a new client if new and connect both succeed.
\* The value is the slot afterwards and what ensure_connected returns.
EnsureConnected(slot, made, result) ==
    IF slot # None THEN [slot |-> slot, made |-> made, value |-> TRUE]
    ELSE IF result = "connected"
         THEN [slot |-> Some(made + 1), made |-> made + 1, value |-> TRUE]
         ELSE [slot |-> None, made |-> made, value |-> FALSE]

\* set_activity runs ensure_connected and returns if it says false.
SetActivityEnsure(c, result) ==
    LET e == EnsureConnected(discord.client, discord.clients, result)
    IN  /\ discord.callers[c].pc = "ensure"
        /\ discord' = [discord EXCEPT
                !.client = e.slot,
                !.clients = e.made,
                !.callers[c] = IF e.value THEN [@ EXCEPT !.pc = "spawn"]
                               ELSE IdleRpcCaller]
        /\ UNCHANGED <<file, now, seqVars, concVars, rc, skin, recentSkins, servers>>

\* A background thread as thread::spawn leaves it: not yet run.
NewThread(activity, cut) ==
    [pc |-> "spawned", activity |-> activity, sent |-> None, cut |-> cut]

\* set_activity spawns the thread with a clone of the slot's Arc and returns.
SetActivitySpawn(c) ==
    /\ discord.callers[c].pc = "spawn"
    /\ discord' = [discord EXCEPT
            !.threads = Append(@, NewThread(discord.callers[c].activity,
                                            discord.callers[c].cut)),
            !.callers[c] = IdleRpcCaller]
    /\ UNCHANGED <<file, now, seqVars, concVars, rc, skin, recentSkins, servers>>

\* A thread that sends whatever the slot holds.
ThreadSendsAlways(slot) == TRUE

\* The thread sends its activity only to a client it finds in the slot.
ThreadSends(slot) == slot # None

\* The background thread runs, the whole of it under the lock: it sends the
\* activity to the client in the slot, or does nothing.
ThreadRun(i) ==
    /\ i \in DOMAIN discord.threads
    /\ discord.threads[i].pc = "spawned"
    /\ discord' = [discord EXCEPT
            !.threads[i].pc = "done",
            !.threads[i].sent = IF ThreadSends(discord.client)
                                THEN Some(discord.client) ELSE None]
    /\ UNCHANGED <<file, now, seqVars, concVars, rc, skin, recentSkins, servers>>

\* A set_activity call or a thread that a disconnect has cut off: it had
\* passed ensure_connected and its thread had not run yet.
CutCaller(r) == IF r.pc = "spawn" THEN [r EXCEPT !.cut = TRUE] ELSE r
CutThread(t) == IF t.pc = "spawned" THEN [t EXCEPT !.cut = TRUE] ELSE t

\* disconnect, under the lock: take the client out of the slot and close it.
\* It returns right after. clear_activity and close are this call and
\* nothing else.
Disconnect(c) ==
    /\ discord.callers[c].pc = "idle"
    /\ discord' = [discord EXCEPT
            !.client = None,
            !.closed = IF discord.client # None
                       THEN @ \cup {discord.client[1]} ELSE @,
            !.callers = [d \in RpcCallers |->
                            CutCaller(discord.callers[d])],
            !.threads = [i \in DOMAIN @ |-> CutThread(@[i])],
            !.since = [returned |-> TRUE, called |-> FALSE,
                       overlapped |-> \E d \in RpcCallers :
                                          discord.callers[d].pc = "ensure"]]
    /\ UNCHANGED <<file, now, seqVars, concVars, rc, skin, recentSkins, servers>>

DiscordInit ==
    /\ file = MissingFile
    /\ file0 = MissingFile
    /\ now = 0
    /\ lastCall = NoCall
    /\ ret = None
    /\ procs = [p \in Procs |-> IdleProc]
    /\ rc = RcOff
    /\ skin = SkinOff
    /\ recentSkins = EmptyMap
    /\ servers = NoListFile
    /\ discord = [DiscordOff EXCEPT !.callers = [c \in RpcCallers |-> IdleRpcCaller]]

DiscordNext ==
    \/ \E c \in RpcCallers, a \in Activities : SetActivityCall(c, a)
    \/ \E c \in RpcCallers, r \in ConnectResults : SetActivityEnsure(c, r)
    \/ \E c \in RpcCallers : SetActivitySpawn(c)
    \/ \E i \in 1..MaxThreads : ThreadRun(i)
    \/ \E c \in RpcCallers : Disconnect(c)

\* One DiscordRpc shared by its callers and by the threads it spawns.
DiscordSpec == DiscordInit /\ [][DiscordNext]_vars

\* ------------------------------------------------------------ properties

\* I1 of the data model: the active pointer is none or names an account.
I1(d) ==
    IsSome(d.active_account_uuid) =>
        Unwrap(d.active_account_uuid) \in DOMAIN d.accounts

\* C1: starting from a missing file, after every add_account, remove_account
\* and set_active_account of a sequential run the persisted store satisfies
\* I1: its active_account_uuid is none or a key of accounts.
C1_ActiveValidSequential ==
    /\ file.kind \in {"missing", "json"}
    /\ I1(Load(file).data)

\* C1's case: the active account was removed while others remained, and the
\* store has an active account again.
C1_Witness ==
    /\ lastCall.op = "remove" /\ lastCall.ok /\ lastCall.wasActive
    /\ file.kind = "json"
    /\ IsSome(file.data.active_account_uuid)
    /\ Cardinality(DOMAIN file.data.accounts) = 2

\* C5: add_account(uuid, ...) makes the entry of uuid the account given,
\* leaves every other entry as it was, makes uuid active when the store had
\* no active account and leaves the active pointer alone otherwise.
C5_AddAccount ==
    [][(lastCall'.op = "add" /\ lastCall'.ok) =>
        LET d == Load(file).data
            e == Load(file').data
            u == lastCall'.uuid
        IN  /\ file'.kind = "json"
            /\ DOMAIN e.accounts = DOMAIN d.accounts \cup {u}
            /\ e.accounts[u].uuid = u
            /\ e.accounts[u].username = lastCall'.cred[1]
            /\ e.accounts[u].access_token = lastCall'.cred[2]
            /\ \A k \in DOMAIN d.accounts \ {u} : e.accounts[k] = d.accounts[k]
            /\ d.active_account_uuid = None => e.active_account_uuid = Some(u)
            /\ d.active_account_uuid # None =>
                    e.active_account_uuid = d.active_account_uuid]_vars

\* C5's case: an account was added, and overwrote an entry, while another
\* account was the active one.
C5_Witness ==
    /\ lastCall.op = "add" /\ lastCall.ok
    /\ lastCall.wasPresent /\ ~lastCall.wasActive
    /\ file.data.active_account_uuid # Some(lastCall.uuid)
    /\ file.data.accounts[lastCall.uuid].username = "Bob"

\* C6: remove_account(u) of the active account leaves no active account
\* when u was the only account, and otherwise an active account that is
\* still stored and is not u; remove_account(u) of another account leaves
\* the active pointer as it was.
C6_RemoveActive ==
    [][(lastCall'.op = "remove" /\ lastCall'.ok) =>
        LET d == Load(file).data
            e == Load(file').data
            u == lastCall'.uuid
        IN  IF d.active_account_uuid = Some(u)
            THEN IF DOMAIN d.accounts \ {u} = {}
                 THEN e.active_account_uuid = None
                 ELSE /\ IsSome(e.active_account_uuid)
                      /\ Unwrap(e.active_account_uuid) \in DOMAIN e.accounts
                      /\ Unwrap(e.active_account_uuid) # u
            ELSE e.active_account_uuid = d.active_account_uuid]_vars

\* C6's case: the active account was removed while two others remained.
C6_Witness ==
    /\ lastCall.op = "remove" /\ lastCall.ok
    /\ lastCall.wasActive /\ lastCall.wasPresent
    /\ Cardinality(DOMAIN file.data.accounts) = 2
    /\ IsSome(file.data.active_account_uuid)

\* C7: remove_account(u) for a uuid that is not stored returns Ok and leaves
\* the accounts and the active pointer as they were; so a second
\* remove_account(u) right after a first leaves the store of the first.
C7_RemoveIdempotent ==
    [][/\ (lastCall'.op = "remove" /\
            lastCall'.uuid \notin DOMAIN Load(file).data.accounts) =>
                (lastCall'.ok /\ Load(file').data = Load(file).data)
       /\ (lastCall.op = "remove" /\ lastCall.ok /\ lastCall'.op = "remove" /\
            lastCall'.uuid = lastCall.uuid) =>
                (lastCall'.ok /\ file' = file)]_vars

\* C7's case: an absent uuid was removed from a store that holds accounts.
C7_Witness ==
    /\ lastCall.op = "remove" /\ lastCall.ok /\ ~lastCall.wasPresent
    /\ file.kind = "json"
    /\ IsSome(file.data.active_account_uuid)

\* C8: set_active_account(u) for a uuid that is not stored returns an error,
\* does not reach save, and leaves the file as it was.
C8_SetActiveAbsent ==
    [][(lastCall'.op = "set_active" /\
        lastCall'.uuid \notin DOMAIN Load(file).data.accounts) =>
            (~lastCall'.ok /\ ~lastCall'.saved /\ file' = file)]_vars

\* C8's case: set_active_account failed on a store that holds accounts.
C8_Witness ==
    /\ lastCall.op = "set_active" /\ ~lastCall.ok /\ ~lastCall.wasPresent
    /\ file.kind = "json"
    /\ DOMAIN file.data.accounts # {}

\* C9: after a successful set_active_account(u), called at instant now,
\* get_active_account returns the account of u, whose last_used is a
\* timestamp that does not order before the one of the call instant; the
\* other accounts, and the other fields of u, are as they were.
C9_SetActiveThenGet ==
    [][/\ (lastCall'.op = "set_active" /\ lastCall'.ok) =>
            LET d == Load(file).data
                e == Load(file').data
                u == lastCall'.uuid
                g == GetActiveAccount(e)
            IN  /\ IsSome(g)
                /\ Unwrap(g).uuid = u
                /\ IsSome(Unwrap(g).last_used)
                /\ StrCmp(Unwrap(Unwrap(g).last_used), Rfc3339(now)) >= 0
                /\ DOMAIN e.accounts = DOMAIN d.accounts
                /\ \A k \in DOMAIN d.accounts \ {u} : e.accounts[k] = d.accounts[k]
                /\ [e.accounts[u] EXCEPT !.last_used = None] =
                        [d.accounts[u] EXCEPT !.last_used = None]
       /\ (lastCall.op = "set_active" /\ lastCall.ok /\ lastCall'.op = "get_active") =>
            /\ lastCall'.ok
            /\ ret' = Some(Load(file).data.accounts[lastCall.uuid])]_vars

\* C9's case: an account that was not active was made active after the
\* clock had moved on, and get_active_account was then called.
C9_Witness ==
    /\ lastCall.op = "get_active" /\ lastCall.ok
    /\ IsSome(ret)
    /\ Unwrap(ret).last_used = Some(Rfc3339(MaxTime))
    /\ Unwrap(ret).added_at = Rfc3339(0)
    /\ Cardinality(DOMAIN file.data.accounts) = 3

\* What a store says apart from its timestamps: for each account its
\* username and token, and the active pointer.
Content(d) ==
    [accounts |-> [k \in DOMAIN d.accounts |->
                    <<d.accounts[k].username, d.accounts[k].access_token>>],
     active_account_uuid |-> d.active_account_uuid]

\* The stores command p leaves when it runs alone on d and returns Ok (none
\* when it returns an error); the timestamps it writes are left at 0.
RunAlone(d, me) ==
    IF me.op = "add"
        THEN {AddAccount(d, me.uuid, me.cred[1], me.cred[2], 0, 0)}
    ELSE IF me.op = "remove" THEN RemoveAccount(d, me.uuid)
    ELSE IF AccountExists(d, me.uuid) THEN {SetActiveAccount(d, me.uuid, 0)}
    ELSE {}

RECURSIVE RunInOrder(_, _)
\* The stores the commands of `order` leave when they run one after another,
\* each returning Ok, starting from any of the stores ds.
RunInOrder(ds, order) ==
    IF order = <<>> THEN ds
    ELSE RunInOrder(UNION {RunAlone(d, procs[Head(order)]) : d \in ds}, Tail(order))

\* The orders in which the commands of P can run one after another.
Orders(P) ==
    {q \in [1..Cardinality(P) -> P] : \A i, j \in DOMAIN q : i # j => q[i] # q[j]}

\* C2: no lost updates. When all commands have returned, and returned Ok,
\* the file (where it holds a store at all) holds what running them one
\* after another in some order on the initial store leaves, timestamps
\* aside.
C2_NoLostUpdate ==
    ((\A p \in Procs : procs[p].pc = "done" /\ procs[p].ok) /\ file.kind = "json") =>
        \E q \in Orders(Procs) :
            Content(file.data) \in
                {Content(d) : d \in RunInOrder({Load(file0).data}, q)}

\* C3: under every interleaving of the loads and saves of concurrently
\* running commands, whenever the file holds a store, its
\* active_account_uuid is none or a key of its accounts.
C3_ActiveValidConcurrent ==
    file.kind = "json" => I1(file.data)

\* C3's case: remove_account(u) and set_active_account(u) overlapped, both
\* returned Ok, and the store written last has u as its active account.
C3_Witness ==
    \E p, q \in Procs :
        /\ procs[p].op = "remove" /\ procs[q].op = "set_active"
        /\ procs[p].uuid = procs[q].uuid
        /\ procs[p].pc = "done" /\ procs[p].ok
        /\ procs[q].pc = "done" /\ procs[q].ok
        /\ file.kind = "json"
        /\ file.data.active_account_uuid = Some(procs[q].uuid)
        /\ Cardinality(DOMAIN file.data.accounts) = 3

\* C10: get_all_accounts returns one summary per stored account, those with
\* a last_used in descending order of it, and those without a last_used
\* behind all of those with one.
C10_ListOrder ==
    (lastCall.op = "get_all" /\ lastCall.ok) =>
        /\ Len(ret) = Cardinality(DOMAIN file.data.accounts)
        /\ {ret[i].uuid : i \in DOMAIN ret} = DOMAIN file.data.accounts
        /\ \A i, j \in DOMAIN ret :
              i < j =>
                /\ (IsSome(ret[i].last_used) /\ IsSome(ret[j].last_used)) =>
                        StrCmp(Unwrap(ret[i].last_used), Unwrap(ret[j].last_used)) >= 0
                /\ ~IsSome(ret[i].last_used) => ~IsSome(ret[j].last_used)

\* The callers that called get_valid_token(u).
CallersOf(u) == {c \in Callers : rc.callers[c].uuid = u}

\* C4: at most one Refresh Ticket for u is registered at any instant; and
\* when the calls of get_valid_token(u), all of them begun before any of
\* them returned and all of them finding the account Refreshable, have
\* returned, exactly one refresh exchange was made for u and all of them
\* returned the same token or the same failure.
C4_OneExchange ==
    \A u \in TokenUuids :
        /\ Cardinality(TicketsFor(u)) <= 1
        /\ (/\ CallersOf(u) # {}
            /\ \A c \in CallersOf(u) :
                  /\ rc.callers[c].pc = "done"
                  /\ rc.callers[c].class = "Refreshable"
                  /\ rc.callers[c].overlapped) =>
                /\ rc.exchanges[u] = 1
                /\ \A c, d \in CallersOf(u) : rc.callers[c].result = rc.callers[d].result

\* The stores a query may see while the commands run: the one of the file
\* they started with, and the one each command has saved or is saving.
StoresInOrder ==
    {Load(file0).data} \cup
    {procs[p].local : p \in {q \in Procs : procs[q].pc \in {"truncated", "done"}}}

\* C11: a read-only query called while a command saves (no save failing, no
\* crash) returns Ok, and returns what it returns on the complete store from
\* before the save or on the complete store the save writes: it never meets
\* an empty, truncated or mixed file.
C11_NoTornRead ==
    (/\ lastCall.op \in {"get_active", "get_all"}
     /\ \A p \in Procs : procs[p].pc \notin {"failed", "crashed"}) =>
        /\ lastCall.ok
        /\ lastCall.op = "get_active" =>
                ret \in {GetActiveAccount(d) : d \in StoresInOrder}
        /\ lastCall.op = "get_all" =>
                ret \in UNION {GetAllAccounts(d) : d \in StoresInOrder}

\* C12: when the process has terminated inside a command, before the save
\* of the command has written its store, the file is as it was before the
\* command (absent, or the complete prior store) and load() returns that
\* store.
C12_CrashKeepsPrior ==
    (\E p \in Procs : procs[p].pc = "crashed") =>
        /\ file = file0
        /\ Load(file).ok
        /\ Load(file).data = Load(file0).data

\* C13: when the save of a mutating command has failed, the command has
\* returned the error, and load() returns the store from before the command.
C13_FailedSaveKeepsStore ==
    \A p \in Procs :
        procs[p].pc = "failed" =>
            /\ ~procs[p].ok
            /\ Load(file).ok
            /\ Load(file).data = Load(file0).data

\* C14: when accounts.json exists and does not parse, every facade operation
\* returns an error, returns no account or list, does not reach save, and
\* leaves the file as it is.
C14_CorruptNeverReset ==
    [][file.kind \in {"empty", "corrupt"} =>
        /\ ~lastCall'.ok
        /\ ~lastCall'.saved
        /\ ret' = None
        /\ file' = file]_vars

\* C14's case: add_account was called on a file that does not parse, and
\* returned an error.
C14_Witness ==
    /\ file.kind = "corrupt"
    /\ lastCall.op = "add" /\ ~lastCall.ok /\ ~lastCall.saved

\* C15: get_valid_token(u) called at instant now on the stored credential a
\* of u. When now < a.expires_at - Skew it returns a.access_token at once,
\* and neither an exchange is made nor the store changed; otherwise, when a
\* has a refresh token, it enters the Refresh Coordinator, and what it
\* returns in the end is the result of the Ticket it owned or awaited, the
\* outcome of that Ticket's exchange (on success a token of a refresh);
\* otherwise it fails with ReauthenticationRequired at once, and neither an
\* exchange is made nor the store changed.
C15_Dispatch ==
    [][\A c \in Callers :
        /\ (rc.callers[c].pc = "idle" /\ rc'.callers[c].pc # "idle") =>
            LET a == rc.accts[rc'.callers[c].uuid]
                me == rc'.callers[c]
            IN  IF now < a.expires_at - Skew
                THEN /\ me.pc = "done"
                     /\ me.result = TokenOk(a.access_token)
                     /\ rc'.exchanges = rc.exchanges
                     /\ rc'.accts = rc.accts
                ELSE IF IsSome(a.refresh_token)
                THEN /\ me.pc = "enter"
                     /\ rc'.exchanges = rc.exchanges
                     /\ rc'.accts = rc.accts
                ELSE /\ me.pc = "done"
                     /\ me.result = TokenErr("ReauthenticationRequired")
                     /\ rc'.exchanges = rc.exchanges
                     /\ rc'.accts = rc.accts
        /\ (rc.callers[c].pc \in {"resolve", "await"} /\ rc'.callers[c].pc = "done") =>
            /\ IsSome(rc'.resolved[rc.callers[c].ticket])
            /\ rc'.callers[c].result = Unwrap(rc'.resolved[rc.callers[c].ticket])
            /\ rc'.callers[c].result = rc'.callers[rc.callers[c].ticket].fetched
            /\ rc'.callers[c].result.ok => rc'.callers[c].result.token >= 1
        /\ (rc.callers[c].pc # "exchange" /\ rc'.callers[c].pc = "exchange") =>
            rc.callers[c].pc = "enter"]_vars

\* C15's case: one call returned the cached token of a fresh credential, one
\* returned the token of a refresh, and one failed on a dead credential.
C15_Witness ==
    \E c, d, e \in Callers :
        /\ rc.callers[c].pc = "done" /\ rc.callers[c].class = "Fresh"
        /\ rc.callers[c].result = TokenOk(0)
        /\ rc.callers[d].pc = "done" /\ rc.callers[d].class = "Refreshable"
        /\ rc.callers[d].result = TokenOk(1)
        /\ rc.callers[e].pc = "done" /\ rc.callers[e].class = "Dead"
        /\ rc.callers[e].result = TokenErr("ReauthenticationRequired")

\* The Tickets of u that were resolved, each with its outcome.
ResolvedFor(u) ==
    {c \in Callers : rc.callers[c].uuid = u /\ IsSome(rc.resolved[c])}

\* C16: no step of a refresh whose exchange failed changes the account
\* store; a caller that awaited the Ticket of a failed exchange returns
\* that failure; a resolved Ticket is no longer registered; and a call of
\* get_valid_token(u) that begins after a refresh of u has failed, no
\* exchange for u having succeeded so far, enters the Refresh Coordinator
\* for a new exchange.
C16_FailedRefresh ==
    [][\A c \in Callers :
        /\ (rc.callers[c].pc \in {"downgrade", "resolve"} /\ ~rc.callers[c].fetched.ok
                /\ rc'.callers[c] # rc.callers[c]) =>
            rc'.accts = rc.accts
        /\ (rc.callers[c].pc = "await" /\ rc'.callers[c].pc = "done") =>
            rc'.callers[c].result = Unwrap(rc.resolved[rc.callers[c].ticket])
        /\ IsSome(rc'.resolved[c]) =>
            [uuid |-> rc'.callers[c].uuid, owner |-> c] \notin rc'.registry
        /\ (/\ rc.callers[c].pc = "idle" /\ rc'.callers[c].pc # "idle"
            /\ ResolvedFor(rc'.callers[c].uuid) # {}
            /\ \A d \in CallersOf(rc'.callers[c].uuid) : ~rc.callers[d].fetched.ok) =>
                rc'.callers[c].pc = "enter"]_vars

\* The instants classify is asked about: up to the latest expiry a
\* credential can have.
Instants == 0..(MaxTime + ExpiresIn)

\* C17: for every stored credential a and instant t, classify(a, t) is
\* Fresh exactly when t < a.expires_at - Skew; it is Refreshable when
\* t >= a.expires_at - Skew and a has a refresh token; it is Dead when
\* t >= a.expires_at and a has no refresh token; and once it is not Fresh
\* at t it is not Fresh at any later instant. The class a call of
\* get_valid_token finds is classify of the credential at the instant of
\* the call.
C17_ClassifyMonotone ==
    /\ \A u \in DOMAIN rc.accts : \A t \in Instants :
        LET a == rc.accts[u]
            class == Classify(a, t)
        IN  /\ class \in {"Fresh", "Refreshable", "Dead"}
            /\ class = "Fresh" <=> t < a.expires_at - Skew
            /\ (t >= a.expires_at - Skew /\ IsSome(a.refresh_token)) =>
                    class = "Refreshable"
            /\ (t >= a.expires_at /\ ~IsSome(a.refresh_token)) => class = "Dead"
            /\ class # "Fresh" =>
                    \A t2 \in t..(MaxTime + ExpiresIn) : Classify(a, t2) # "Fresh"
    /\ \A c \in DOMAIN rc.callers :
        LET me == rc.callers[c]
        IN  \A d \in DOMAIN rc.callers :
                (/\ me.uuid # "" /\ me.uuid = rc.callers[d].uuid
                 /\ ~IsSome(rc.accts[me.uuid].refresh_token)
                 /\ rc.exchanges[me.uuid] = 0
                 /\ me.class = "Fresh" /\ rc.callers[d].class # "" /\ rc.callers[d].class # "Fresh") =>
                    rc.callers[d].class = "Dead"

\* C17's case: of two calls on the same credential, which has no refresh
\* token, the earlier found it Fresh and the later, at the last instant,
\* found it Dead.
C17_Witness ==
    /\ now = MaxTime
    /\ \E c, d \in Callers :
        /\ c # d
        /\ rc.callers[c].uuid = rc.callers[d].uuid
        /\ rc.callers[c].class = "Fresh"
        /\ rc.callers[d].class = "Dead"

\* C18: every request a skin or cape command has sent with a token was sent
\* by a task whose get_active_account had returned the active account of the
\* store and whose get_valid_token had returned Ok, and carries exactly
\* that token; and a command for which there was no active account, or
\* whose get_valid_token failed, has returned an error and sent no request.
C18_TokenBeforeRequest ==
    /\ \A r \in skin.http :
        LET me == skin.tasks[r.task]
        IN  /\ IsSome(me.account)
            /\ me.account = GetActiveAccount(file.data)
            /\ me.token.ok
            /\ IsSome(r.bearer) =>
                    /\ r.cmd = me.cmd
                    /\ Unwrap(r.bearer) = me.token.value
    /\ \A k \in DOMAIN skin.tasks :
        LET me == skin.tasks[k]
        IN  /\ me.pc \in {"sent", "done"} /\ me.result.ok =>
                \E r \in skin.http : r.task = k /\ r.cmd = me.cmd /\ IsSome(r.bearer)
            /\ (me.pc \notin {"idle", "token"} /\ (~IsSome(me.account) \/ ~me.token.ok)) =>
                /\ me.pc = "done"
                /\ ~me.result.ok
                /\ \A r \in skin.http : r.task # k

\* C18's case: one command has sent its request with a refreshed token, not
\* the one stored with the account, and succeeded; another returned the
\* error of get_valid_token.
C18_Witness ==
    \E k, j \in SkinTasks :
        /\ skin.tasks[k].pc = "done" /\ skin.tasks[k].result.ok
        /\ skin.tasks[k].cmd = "upload_skin"
        /\ [task |-> k, cmd |-> "upload_skin", bearer |-> Some("tokR")] \in skin.http
        /\ Unwrap(skin.tasks[k].account).access_token # "tokR"
        /\ skin.tasks[j].pc = "done" /\ skin.tasks[j].cmd = "equip_cape"
        /\ IsSome(skin.tasks[j].account) /\ ~skin.tasks[j].token.ok

\* C19: after save_recent_skin(u, url, variant) the list of u has one to
\* three entries, no two of them with the same url; its first entry is the
\* one saved; its other entries are entries of the list before the call, in
\* the order they had there. (A step in which the clock does not move is a
\* call.)
C19_RecentSkins ==
    [][(lastCall'.op = "save_recent_skin" /\ now' = now) =>
        LET u == lastCall'.uuid
            old == recentSkins[u].list
            new == recentSkins'[u].list
        IN  /\ recentSkins'[u].kind = "json"
            /\ Len(new) \in 1..3
            /\ \A i, j \in DOMAIN new : i # j => new[i].url # new[j].url
            /\ new[1].url = lastCall'.url
            /\ new[1].variant = lastCall'.variant
            /\ \A i \in 2..Len(new) : \E a \in DOMAIN old : old[a] = new[i]
            /\ \A i, j \in 2..Len(new) :
                  i < j => \E a, b \in DOMAIN old :
                              a < b /\ old[a] = new[i] /\ old[b] = new[j]
            /\ ret' = Ok(<<>>)]_vars

\* C19's case: the url saved was the last of three in the list; it is now
\* the first of three, with the variant of this call, and load_recent_skins
\* would return that list.
C19_Witness ==
    /\ lastCall.op = "save_recent_skin"
    /\ lastCall.was = 3
    /\ Len(recentSkins[lastCall.uuid].list) = 3
    /\ recentSkins[lastCall.uuid].list[1].url = lastCall.url
    /\ recentSkins[lastCall.uuid].list[3].variant # lastCall.variant

\* Two names are equal ignoring case: of the same length, and at each place
\* the same character or the two cases of one letter.
EqIgnoringCase(a, b) ==
    /\ Len(a) = Len(b)
    /\ \A i \in DOMAIN a :
        \/ a[i] = b[i]
        \/ a[i] \in 65..90 /\ b[i] = a[i] + 32
        \/ b[i] \in 65..90 /\ a[i] = b[i] + 32

\* C20: from the empty server list on, after every add_server,
\* delete_server and update_server_status no two stored servers have names
\* equal ignoring case; add_server with a name that a stored server has,
\* ignoring case, fails and changes nothing; delete_server and
\* update_server_status with a name no stored server has fail and change
\* nothing; and update_server_status leaves the number of servers and the
\* name, address and port of each as they were. The name of a call is the
\* one sanitize_server_name returned for it; a step in which the clock does
\* not move is a call.
C20_ServerNames ==
    [][LET old == servers.list
           new == servers'.list
           call == IF now' = now THEN lastCall' ELSE NoCall
       IN  /\ \A i, j \in DOMAIN new :
                i # j => ~EqIgnoringCase(new[i].name, new[j].name)
           /\ (call.op = "add_server" /\ call.sane /\
                    \E i \in DOMAIN old : EqIgnoringCase(old[i].name, call.name)) =>
                (~call.ok /\ servers' = servers)
           /\ (call.op \in {"delete_server", "update_server_status"} /\ call.sane /\
                    \A i \in DOMAIN old : old[i].name # call.name) =>
                (~call.ok /\ servers' = servers)
           /\ call.op = "update_server_status" =>
                /\ Len(new) = Len(old)
                /\ \A i \in DOMAIN old :
                      /\ new[i].name = old[i].name
                      /\ new[i].address = old[i].address
                      /\ new[i].port = old[i].port]_vars

\* C20's case: add_server was refused for a name that differs only in case
\* from the name of a stored server, whose status had been updated, while
\* another server is stored too.
C20_Witness ==
    /\ lastCall.op = "add_server" /\ lastCall.sane /\ ~lastCall.ok
    /\ Len(servers.list) = 2
    /\ \E i \in DOMAIN servers.list :
          /\ servers.list[i].name # lastCall.name
          /\ EqIgnoringCase(servers.list[i].name, lastCall.name)
          /\ servers.list[i].status = "online"
          /\ IsSome(servers.list[i].last_checked)

\* The slot holds a client only after a successful connect: the client in
\* it is one that connect has connected and disconnect has not closed.
SlotConnected(d) ==
    d.client # None => (d.client[1] \in 1..d.clients /\ d.client[1] \notin d.closed)

\* The threads that send their activity in this step.
Senders == {i \in DOMAIN discord.threads :
                discord.threads[i].sent = None /\ discord'.threads[i].sent # None}

\* The threads that run in this step.
Runners == {i \in DOMAIN discord.threads :
                discord.threads[i].pc = "spawned" /\ discord'.threads[i].pc = "done"}

\* C21 as stated: the slot holds a client only after a successful connect; a
\* background thread that runs after a disconnect (clear_activity, close) that
\* came between its set_activity's ensure_connected and its own run finds the
\* slot empty, sends nothing and leaves the slot empty; and while a disconnect
\* has returned and no set_activity has been called since, the slot is empty
\* and no thread sends an activity.
C21_AsStated ==
    [][/\ SlotConnected(discord')
       /\ \A i \in Runners : discord.threads[i].cut =>
              (discord.client = None /\ i \notin Senders /\ discord'.client = None)
       /\ (discord'.since.returned /\ ~discord'.since.called) =>
              (discord'.client = None /\
               (discord.since.returned /\ ~discord.since.called => Senders = {}))]_vars

\* C21, amended: the slot holds a client only after a successful connect; a
\* background thread that finds the slot empty sends nothing and leaves it
\* empty, and one that sends, sends to the client in the slot; and while a
\* disconnect has returned, no set_activity call was then still before its
\* ensure_connected and none has been called since, the slot is empty and no
\* thread sends an activity.
C21_SlotStaysEmpty ==
    [][/\ SlotConnected(discord')
       /\ \A i \in Runners :
              /\ discord.client = None => (i \notin Senders /\ discord'.client = None)
              /\ i \in Senders => discord'.threads[i].sent = Some(discord.client)
       /\ (discord'.since.returned /\ ~discord'.since.called
                /\ ~discord'.since.overlapped) =>
              (discord'.client = None /\
               (discord.since.returned /\ ~discord.since.called
                    /\ ~discord.since.overlapped => Senders = {}))]_vars

\* A thread spawned by a set_activity that connected has run after a
\* disconnect cut it off, found the slot empty and sent nothing, and no
\* set_activity overlapped the disconnect or came after it.
C21_Witness ==
    /\ discord.since.returned /\ ~discord.since.called /\ ~discord.since.overlapped
    /\ discord.clients >= 1
    /\ discord.client = None
    /\ \E i \in DOMAIN discord.threads :
          /\ discord.threads[i].pc = "done"
          /\ discord.threads[i].cut
          /\ discord.threads[i].sent = None

====
